---- MODULE Spec2Model ----
(***************************************************************************)
(* The per-load price negotiation of the load API: the /negotiate handler, *)
(* its in-memory NEGOTIATION_STATE store, the decision function            *)
(* run_negotiation_logic and the two repository calls it makes.            *)
(*                                                                         *)
(* The repository holds two versions of the service module:                *)
(*   src/src/main.py               (deterministic concession, no booking   *)
(*                                  write-back)                            *)
(*   src/src/mainnegote_works2.py  (randomised concession, db.py for the   *)
(*                                  repository calls)                      *)
(* The variable `variant` says which of the two is serving.                *)
(*                                                                         *)
(* Optional values are sequences: <<>> is None, <<x>> is the value x.      *)
(* Prices are floats in the program; here a price is a whole number of     *)
(* quarter dollars (Dollar units to the dollar), and round() gives a whole  *)
(* number of dollars.                                                       *)
(***************************************************************************)
EXTENDS Integers, Sequences, FiniteSets, TLC

\* ---------------------------------------------------------------- bounds
\* NegotiationState objects of one load that can be alive at once, less one
\* (the one the dict holds, and those only some call's `state` still holds).
MaxGenerations == 2

\* ------------------------------------------------------ program constants
MAX_NEGOTIATION_EXCHANGES == 3

\* ------------------------------------------------------------------ prices
\* `carrier_offer: float`, `loadboard_rate: Optional[float]`: the units of a
\* price that make one dollar, and the price of x dollars.
Dollar == 4
USD(x) == x * Dollar

\* ------------------------------------------------------------ model inputs
Variants == {"main", "works2"}
\* Load identifiers callers ask about; "L3" has no row in the loads table.
Loads == {"L1", "L2", "L3"}
\* The loads table: loadboard_rate of each row (L2's rate is NULL).
LoadTable == [l \in {"L1", "L2"} |-> IF l = "L1" THEN <<USD(100)>> ELSE <<>>]
CarrierOffers == {USD(90), USD(100)}
Calls == {"c1", "c2"}
\* Object identities: the load an object was created for and a generation.
ObjIds == Loads \X (0..MaxGenerations)
NoObj == <<"none", 0>>
NoCall == "none"

None == <<>>
Some(x) == <<x>>
IsNone(v) == v = <<>>
Val(v) == v[1]

\* ------------------------------------------------------------ pure helpers
Max(a, b) == IF a >= b THEN a ELSE b
Min(a, b) == IF a <= b THEN a ELSE b

\* Python 3 round(n / d) for d > 0: round half to even.
Round(n, d) ==
    LET q == n \div d
        r == n % d
    IN  IF 2 * r < d THEN q
        ELSE IF 2 * r > d THEN q + 1
        ELSE IF q % 2 = 0 THEN q ELSE q + 1

\* NegotiationState() as constructed with its dataclass defaults.
NegotiationState == [attempts |-> 0, last_agent_offer |-> None]

\* A NegotiationResponse. The two versions declare different fields; a field
\* the serving version does not declare is None. `message` keeps the kind of
\* sentence ("accepted", "counters", "limit_reached"), message_amount the
\* price the sentence names first ("accepted the carrier's offer of $..",
\* "counters at $..") and no_further says whether " No further counter offers
\* are available." was appended.
NoResponse ==
    [message |-> "none", message_amount |-> None,
     load_booked |-> "N", carrier_offer |-> None,
     agent_new_offer |-> None, agreed_price |-> None, counter_offer |-> None,
     remaining_attempts |-> 0, no_further |-> FALSE]

\* What a call ends with: a response (200), an HTTPException (status), or an
\* exception no handler of negotiate catches ("unhandled").
NoResult == [kind |-> "none", status |-> 0, body |-> NoResponse]
Ok(resp) == [kind |-> "response", status |-> 200, body |-> resp]
HTTPException(code) == [kind |-> "http_error", status |-> code, body |-> NoResponse]
Unhandled == [kind |-> "unhandled", status |-> 500, body |-> NoResponse]

\* The outcome of a result, in the words of the specification.
Outcome(res) ==
    IF res.kind = "response" THEN
        (IF res.body.message = "accepted" THEN "accepted"
         ELSE IF res.body.message = "limit_reached" THEN "limit_reached"
         ELSE "countered")
    ELSE IF res.kind = "none" THEN "none"
    ELSE "error"

\* `state.attempts >= MAX_NEGOTIATION_EXCHANGES`
LimitReachedOffByOne(attempts) == attempts > MAX_NEGOTIATION_EXCHANGES
LimitReached(attempts) == attempts >= MAX_NEGOTIATION_EXCHANGES

\* The response built when the limit was already reached.
LimitResponse(v, offer) ==
    IF v = "main" THEN
        [NoResponse EXCEPT !.message = "limit_reached", !.load_booked = "N",
                           !.remaining_attempts = 0]
    ELSE
        \* remaining_attempts is not passed: the field's default, 3, stands
        [NoResponse EXCEPT !.message = "limit_reached", !.load_booked = "N",
                           !.carrier_offer = Some(offer),
                           !.agent_new_offer = Some(USD(-1)),
                           !.agreed_price = Some(offer),
                           !.remaining_attempts = 3]

\* The response of an accepting round, as run_negotiation_logic builds it.
AcceptedResponse(v, offer) ==
    IF v = "main" THEN
        [NoResponse EXCEPT !.message = "accepted", !.load_booked = "Y",
                           !.message_amount = Some(offer)]
    ELSE
        [NoResponse EXCEPT !.message = "accepted", !.load_booked = "Y",
                           !.message_amount = Some(offer),
                           !.carrier_offer = Some(offer),
                           !.agent_new_offer = Some(USD(-1)),
                           !.agreed_price = Some(offer),
                           !.remaining_attempts = 0]

\* The response of a countering round, as run_negotiation_logic builds it.
CounterResponse(v, offer, agent_new_offer, attempt_index) ==
    IF v = "main" THEN
        [NoResponse EXCEPT !.message = "counters", !.load_booked = "N",
                           !.message_amount = Some(agent_new_offer),
                           !.counter_offer = Some(agent_new_offer)]
    ELSE
        [NoResponse EXCEPT !.message = "counters", !.load_booked = "N",
                           !.message_amount = Some(agent_new_offer),
                           !.carrier_offer = Some(offer),
                           !.agent_new_offer = Some(agent_new_offer),
                           !.agreed_price = Some(USD(-1)),
                           !.remaining_attempts =
                               MAX_NEGOTIATION_EXCHANGES - attempt_index - 1]

\* `random.uniform(1, load.loadboard_rate * 0.02)`: the values the draw can
\* give, in hundredths of a price unit. uniform(a, b) ranges over the interval
\* between a and b, whichever of the two is larger, end points included;
\* 1 dollar is 100 * Dollar hundredths, 2% of the rate is 2 * rate hundredths.
RandomNumbers(rate) ==
    Min(100 * Dollar, 2 * rate)..Max(100 * Dollar, 2 * rate)

\* The agent's threshold(s) for a round: the set of values agent_new_offer can
\* take, or {} when computing it raises TypeError.
\*   main:   round(orig * 0.97), then round((orig + baseline) / 2.0)
\*   works2: round(orig * 0.97), then
\*           round((orig + last + random.uniform(1, rate * 0.02)) / 2.0);
\*           uniform(a, b) ranges over the interval between a and b, whichever
\*           is larger, end points included.
AgentNewOffersFirstAtList(v, rate, offer, attempt_index, agent_last_offer) ==
    LET orig == IF IsNone(rate) THEN offer ELSE Val(rate)
    IN  IF attempt_index = 0 THEN {orig}
        ELSE LET baseline == IF IsNone(agent_last_offer) THEN orig
                             ELSE Val(agent_last_offer)
             IN  {USD(Round(orig + baseline, 2 * Dollar))}
AgentNewOffersTowardCarrier(v, rate, offer, attempt_index, agent_last_offer) ==
    LET orig == IF IsNone(rate) THEN offer ELSE Val(rate)
    IN  IF attempt_index = 0 THEN {USD(Round(97 * orig, 100 * Dollar))}
        ELSE LET baseline == IF IsNone(agent_last_offer) THEN orig
                             ELSE Val(agent_last_offer)
             IN  {USD(Round(offer + baseline, 2 * Dollar))}
AgentNewOffersRandomised(v, rate, offer, attempt_index, agent_last_offer) ==
    LET orig == IF IsNone(rate) THEN offer ELSE Val(rate)
    IN  IF attempt_index = 0 THEN {USD(Round(97 * orig, 100 * Dollar))}
        ELSE IF IsNone(rate) \/ IsNone(agent_last_offer) THEN {}
        ELSE LET s == orig + Val(agent_last_offer)
             IN  {USD(Round(100 * s + t, 200 * Dollar)) :
                     t \in RandomNumbers(Val(rate))}
AgentNewOffers(v, rate, offer, attempt_index, agent_last_offer) ==
    LET orig == IF IsNone(rate) THEN offer ELSE Val(rate)
    IN  IF attempt_index = 0 THEN {USD(Round(97 * orig, 100 * Dollar))}
        ELSE IF v = "main" THEN
            LET baseline == IF IsNone(agent_last_offer) THEN orig
                            ELSE Val(agent_last_offer)
            IN  {USD(Round(orig + baseline, 2 * Dollar))}
        ELSE IF IsNone(rate) \/ IsNone(agent_last_offer) THEN {}
        ELSE LET s == orig + Val(agent_last_offer)
             IN  {USD(Round(100 * s + t, 200 * Dollar)) :
                     t \in RandomNumbers(Val(rate))}

\* run_negotiation_logic: the set of (response, agent offer) pairs it can
\* return; empty when it raises.
run_negotiation_logic_strict(v, rate, offer, attempt_index, agent_last_offer) ==
    {[response |-> IF offer > n THEN AcceptedResponse(v, offer)
                   ELSE CounterResponse(v, offer, n, attempt_index),
      agent_offer |-> n] :
        n \in AgentNewOffers(v, rate, offer, attempt_index, agent_last_offer)}
run_negotiation_logic(v, rate, offer, attempt_index, agent_last_offer) ==
    {[response |-> IF offer >= n THEN AcceptedResponse(v, offer)
                   ELSE CounterResponse(v, offer, n, attempt_index),
      agent_offer |-> n] :
        n \in AgentNewOffers(v, rate, offer, attempt_index, agent_last_offer)}

\* `state.last_agent_offer = agent_offer; state.attempts += 1`
RecordRoundNoIncrement(st, agent_offer) ==
    [attempts |-> st.attempts, last_agent_offer |-> Some(agent_offer)]
RecordRound(st, agent_offer) ==
    [attempts |-> st.attempts + 1, last_agent_offer |-> Some(agent_offer)]

\* `remaining_attempts = MAX_NEGOTIATION_EXCHANGES - state.attempts`
RemainingBeforeRound(attempts) == MAX_NEGOTIATION_EXCHANGES - attempts + 1
Remaining(attempts) == MAX_NEGOTIATION_EXCHANGES - attempts

\* `NEGOTIATION_STATE.pop(load_id, None)`
PoppedNothing(store, l) == store
PoppedAll(store, l) == [k \in DOMAIN store |-> NoObj]
Popped(store, l) == [store EXCEPT ![l] = NoObj]

\* ------------------------------------------------------------------ state
VARIABLES
    variant,            \* which version of the service module is serving
    NEGOTIATION_STATE,  \* the module-level dict: load id -> object, or NoObj
    heap,               \* the NegotiationState objects: identity -> fields
    load_booked,        \* the loads table's load_booked column
    running,            \* the call whose coroutine the event loop is running
    pc,                 \* each call's position in negotiate
    req,                \* each call's arguments (load_id, carrier_offer)
    local,              \* each call's local variables
    trace,              \* history: what each call in progress saw and did
    finished,           \* history: the call that ended last and how it ended,
                        \* kept until the next call starts
    rounds,             \* history: decided rounds applied to each object
    after_accept        \* history: the load's latest ended call returned
                        \* accepted and no call for it has started since

vars == <<variant, NEGOTIATION_STATE, heap, load_booked, running, pc, req,
          local, trace, finished, rounds, after_accept>>

NoReq == [load_id |-> "L1", carrier_offer |-> 0]
NoLocal ==
    [state |-> NoObj, load |-> None, negotiation_response |-> NoResponse,
     agent_offer |-> None, remaining_attempts |-> 0]

\* The store as a caller could observe it: per load, whether a key exists
\* and the fields of the object it maps to.
Absent == [present |-> FALSE, attempts |-> 0, last_agent_offer |-> None]
View(store, h) ==
    [l \in Loads |->
        IF store[l] = NoObj THEN Absent
        ELSE [present |-> TRUE, attempts |-> h[store[l]].attempts,
              last_agent_offer |-> h[store[l]].last_agent_offer]]
StoreView == View(NEGOTIATION_STATE, heap)

NoTrace ==
    [pre |-> [l \in Loads |-> Absent], fetches |-> 0, updates |-> 0,
     decides |-> 0, attempt_index |-> 0, agent_last_offer |-> None,
     accepted |-> FALSE, update_failed |-> FALSE, after_accept |-> FALSE,
     fetched |-> "not_called", load |-> None]

NoFinished ==
    [load_id |-> "L1", carrier_offer |-> 0, result |-> NoResult, pre |-> Absent, post |-> Absent,
     store_unchanged |-> TRUE, fetches |-> 0, updates |-> 0, decides |-> 0,
     attempt_index |-> 0, agent_last_offer |-> None, accepted |-> FALSE,
     update_failed |-> FALSE, after_accept |-> FALSE, booked |-> "N",
     fetched |-> "not_called", load |-> None]

\* Objects that the dict or some call's `state` variable still refers to.
Referenced(store, refs) == {store[l] : l \in Loads} \cup refs

\* Reference counting: an object nothing refers to is freed.
Collect(h, store, refs) ==
    [o \in ObjIds |-> IF o \in Referenced(store, refs) THEN h[o]
                      ELSE NegotiationState]
CollectRounds(r, store, refs) ==
    [o \in ObjIds |-> IF o \in Referenced(store, refs) THEN r[o] ELSE 0]

\* The identity a NegotiationState newly constructed for load l takes.
NewObject(l) ==
    LET used == Referenced(NEGOTIATION_STATE, {local[c].state : c \in Calls})
        free == {g \in 0..MaxGenerations : <<l, g>> \notin used}
    IN  <<l, CHOOSE g \in free : \A h \in free : g <= h>>

Init ==
    /\ variant \in Variants
    /\ NEGOTIATION_STATE = [l \in Loads |-> NoObj]
    /\ heap = [o \in ObjIds |-> NegotiationState]
    /\ load_booked = [l \in DOMAIN LoadTable |-> "N"]
    /\ running = NoCall
    /\ pc = [c \in Calls |-> "idle"]
    /\ req = [c \in Calls |-> NoReq]
    /\ local = [c \in Calls |-> NoLocal]
    /\ trace = [c \in Calls |-> NoTrace]
    /\ finished = NoFinished
    /\ rounds = [o \in ObjIds |-> 0]
    /\ after_accept = [l \in Loads |-> FALSE]

\* `async def negotiate` contains no await: once the event loop has started a
\* call's coroutine it runs it to its return or raise before any other
\* coroutine gets the loop, also while it sits in a blocking repository call.
CanStepAwaiting(c) == TRUE
CanStep(c) == IF pc[c] = "pending" THEN running = NoCall ELSE running = c

\* A request POST /negotiate?load_id=..&carrier_offer=.. arrives.
Arrive(c) ==
    /\ pc[c] = "idle"
    /\ \E l \in Loads, offer \in CarrierOffers :
          req' = [req EXCEPT ![c] = [load_id |-> l, carrier_offer |-> offer]]
    /\ pc' = [pc EXCEPT ![c] = "pending"]
    /\ UNCHANGED <<variant, NEGOTIATION_STATE, heap, load_booked, running,
                   local, trace, finished, rounds, after_accept>>

\* The call returns `res` (or raises it) with the dict, the objects and the
\* loads table as given: its coroutine ends, its locals go out of scope, the
\* event loop is free again.
Return(c, res, store2, heap2, booked2, tr) ==
    LET refs == {local[d].state : d \in Calls \ {c}}
        l    == req[c].load_id
        h3   == Collect(heap2, store2, refs)
    IN  /\ pc' = [pc EXCEPT ![c] = "idle"]
        /\ running' = NoCall
        /\ req' = [req EXCEPT ![c] = NoReq]
        /\ local' = [local EXCEPT ![c] = NoLocal]
        /\ trace' = [trace EXCEPT ![c] = NoTrace]
        /\ NEGOTIATION_STATE' = store2
        /\ heap' = h3
        /\ rounds' = CollectRounds(rounds, store2, refs)
        /\ load_booked' = booked2
        /\ after_accept' = [after_accept EXCEPT
                              ![l] = (Outcome(res) = "accepted")]
        /\ finished' =
              [load_id |-> l, carrier_offer |-> req[c].carrier_offer,
               result |-> res, pre |-> tr.pre[l], post |-> View(store2, h3)[l],
               store_unchanged |-> (View(store2, h3) = tr.pre),
               fetches |-> tr.fetches, updates |-> tr.updates,
               decides |-> tr.decides, attempt_index |-> tr.attempt_index,
               agent_last_offer |-> tr.agent_last_offer,
               accepted |-> tr.accepted,
               update_failed |-> tr.update_failed,
               after_accept |-> tr.after_accept,
               booked |-> IF l \in DOMAIN booked2 THEN booked2[l] ELSE "N",
               fetched |-> tr.fetched, load |-> tr.load]

\* state = NEGOTIATION_STATE.get(load_id); if None, create and insert one.
Lookup(c) ==
    /\ pc[c] = "pending"
    /\ CanStep(c)
    /\ LET l == req[c].load_id
           o == IF NEGOTIATION_STATE[l] # NoObj THEN NEGOTIATION_STATE[l]
                ELSE NewObject(l)
       IN  /\ NEGOTIATION_STATE' = [NEGOTIATION_STATE EXCEPT ![l] = o]
           /\ local' = [local EXCEPT ![c].state = o]
           /\ trace' = [trace EXCEPT ![c].pre = StoreView,
                                     ![c].after_accept = after_accept[l]]
           /\ after_accept' = [after_accept EXCEPT ![l] = FALSE]
    /\ running' = c
    /\ pc' = [pc EXCEPT ![c] = "check"]
    /\ finished' = NoFinished
    /\ UNCHANGED <<variant, heap, load_booked, req, rounds>>

\* if state.attempts >= MAX_NEGOTIATION_EXCHANGES: return the limit response.
CheckLimit(c) ==
    /\ pc[c] = "check"
    /\ CanStep(c)
    /\ IF LimitReached(heap[local[c].state].attempts)
       THEN Return(c, Ok(LimitResponse(variant, req[c].carrier_offer)),
                   NEGOTIATION_STATE, heap, load_booked, trace[c])
       ELSE /\ pc' = [pc EXCEPT ![c] = "fetch"]
            /\ UNCHANGED <<NEGOTIATION_STATE, heap, load_booked, running, req,
                           local, trace, finished, rounds, after_accept>>
    /\ UNCHANGED variant

\* What the repository can answer to the lookup of a load:
\*   "ok"      a row that validates as a Load
\*   "invalid" a row that Load.model_validate rejects
\*   "none"    no row
\*   "error"   a response carrying an error (fetch_load raises RuntimeError)
\*   "raise"   execute() itself raises (network, client library): an
\*             exception that is not a RuntimeError
FetchOutcomes(l) ==
    IF l \in DOMAIN LoadTable THEN {"ok", "invalid", "error", "raise"}
    ELSE {"none", "error", "raise"}

\* How negotiate ends when the lookup did not give a valid Load.
\* main.py wraps execute() in `except Exception`; mainnegote_works2.py wraps
\* fetch_load in `except RuntimeError` only.
FetchFailure(v, outcome) ==
    IF outcome = "error" THEN HTTPException(502)
    ELSE IF outcome = "raise" THEN
        (IF v = "main" THEN HTTPException(502) ELSE Unhandled)
    ELSE IF outcome = "none" THEN HTTPException(404)
    ELSE HTTPException(500)

\* record = fetch_load(load_id), its error handling, Load.model_validate.
\* While pc = "fetch" the call is blocked inside the repository call; the step
\* is the repository's answer.
FetchLoad(c) ==
    /\ pc[c] = "fetch"
    /\ CanStep(c)
    /\ \E outcome \in FetchOutcomes(req[c].load_id) :
         LET tr == [trace[c] EXCEPT !.fetches = @ + 1, !.fetched = outcome]
         IN  IF outcome = "ok"
             THEN /\ local' = [local EXCEPT
                                 ![c].load = Some(LoadTable[req[c].load_id])]
                  /\ pc' = [pc EXCEPT ![c] = "decide"]
                  /\ trace' = [trace EXCEPT ![c] =
                        [tr EXCEPT !.load = Some(LoadTable[req[c].load_id])]]
                  /\ UNCHANGED <<NEGOTIATION_STATE, heap, load_booked, running,
                                 req, finished, rounds, after_accept>>
             ELSE Return(c, FetchFailure(variant, outcome),
                         NEGOTIATION_STATE, heap, load_booked, tr)
    /\ UNCHANGED variant

\* negotiation_response, agent_offer = run_negotiation_logic(load,
\*     carrier_offer, load_id, state.attempts, state.last_agent_offer)
Decide(c) ==
    /\ pc[c] = "decide"
    /\ CanStep(c)
    /\ LET st   == heap[local[c].state]
           outs == run_negotiation_logic(variant, Val(local[c].load),
                       req[c].carrier_offer, st.attempts, st.last_agent_offer)
           tr   == [trace[c] EXCEPT !.decides = @ + 1,
                                    !.attempt_index = st.attempts,
                                    !.agent_last_offer = st.last_agent_offer]
       IN  IF outs = {}
           THEN Return(c, Unhandled, NEGOTIATION_STATE, heap, load_booked, tr)
           ELSE /\ \E out \in outs :
                     /\ local' = [local EXCEPT
                           ![c].negotiation_response = out.response,
                           ![c].agent_offer = Some(out.agent_offer)]
                     /\ trace' = [trace EXCEPT ![c] =
                           [tr EXCEPT !.accepted =
                                        (out.response.load_booked = "Y")]]
                /\ pc' = [pc EXCEPT ![c] = "record"]
                /\ UNCHANGED <<NEGOTIATION_STATE, heap, load_booked, running,
                               req, finished, rounds, after_accept>>
    /\ UNCHANGED variant

\* state.last_agent_offer = agent_offer; state.attempts += 1
\* remaining_attempts = MAX_NEGOTIATION_EXCHANGES - state.attempts
\* negotiation_response.remaining_attempts = max(remaining_attempts, 0)
Record(c) ==
    /\ pc[c] = "record"
    /\ CanStep(c)
    /\ LET o   == local[c].state
           st2 == RecordRound(heap[o], Val(local[c].agent_offer))
           rem == Remaining(st2.attempts)
       IN  /\ heap' = [heap EXCEPT ![o] = st2]
           /\ rounds' = [rounds EXCEPT ![o] = @ + 1]
           /\ local' = [local EXCEPT
                 ![c].remaining_attempts = rem,
                 ![c].negotiation_response.remaining_attempts = Max(rem, 0)]
    /\ pc' = [pc EXCEPT ![c] = "conclude"]
    /\ UNCHANGED <<variant, NEGOTIATION_STATE, load_booked, running, req,
                   trace, finished, after_accept>>

\* if load_booked == "Y": pop the state (and, in mainnegote_works2.py, go on
\* to update_load_booked); elif remaining_attempts <= 0: pin attempts at the
\* maximum and extend the message; return negotiation_response.
Conclude(c) ==
    /\ pc[c] = "conclude"
    /\ CanStep(c)
    /\ LET l    == req[c].load_id
           resp == local[c].negotiation_response
       IN  IF resp.load_booked = "Y"
           THEN IF variant = "main"
                THEN Return(c, Ok(resp), Popped(NEGOTIATION_STATE, l), heap,
                            load_booked, trace[c])
                ELSE /\ NEGOTIATION_STATE' = Popped(NEGOTIATION_STATE, l)
                     /\ pc' = [pc EXCEPT ![c] = "book"]
                     /\ UNCHANGED <<heap, load_booked, running, req, local,
                                    trace, finished, rounds, after_accept>>
           ELSE IF local[c].remaining_attempts <= 0
           THEN Return(c, Ok([resp EXCEPT !.no_further = TRUE]),
                       NEGOTIATION_STATE,
                       [heap EXCEPT ![local[c].state].attempts =
                                        MAX_NEGOTIATION_EXCHANGES],
                       load_booked, trace[c])
           ELSE Return(c, Ok(resp), NEGOTIATION_STATE, heap, load_booked,
                       trace[c])
    /\ UNCHANGED variant

\* What the repository can answer to the booking update: done, a response
\* carrying an error (RuntimeError), or execute() raising something else.
UpdateOutcomes == {"ok", "error", "raise"}

\* update_load_booked(load_id, "Y") and its `except RuntimeError`.
\* While pc = "book" the call is blocked inside the repository call.
Book(c) ==
    /\ pc[c] = "book"
    /\ CanStep(c)
    /\ \E outcome \in UpdateOutcomes :
         LET l  == req[c].load_id
             tr == [trace[c] EXCEPT !.updates = @ + 1,
                                    !.update_failed = (outcome # "ok")]
         IN  \/ /\ outcome = "ok"
                /\ Return(c, Ok(local[c].negotiation_response),
                          NEGOTIATION_STATE, heap,
                          [load_booked EXCEPT ![l] = "Y"], tr)
             \/ /\ outcome = "error"
                /\ Return(c, HTTPException(502), NEGOTIATION_STATE, heap,
                          load_booked, tr)
             \/ /\ outcome = "raise"
                \* the write may or may not have reached the table
                /\ \E b \in {load_booked[l], "Y"} :
                      Return(c, Unhandled, NEGOTIATION_STATE, heap,
                             [load_booked EXCEPT ![l] = b], tr)
    /\ UNCHANGED variant

Next ==
    \E c \in Calls :
        \/ Arrive(c)
        \/ Lookup(c)
        \/ CheckLimit(c)
        \/ FetchLoad(c)
        \/ Decide(c)
        \/ Record(c)
        \/ Conclude(c)
        \/ Book(c)

Spec == Init /\ [][Next]_vars

TypeOK ==
    /\ variant \in Variants
    /\ \A l \in Loads : NEGOTIATION_STATE[l] \in ObjIds \cup {NoObj}
    /\ running \in Calls \cup {NoCall}

\* ------------------------------------------- the decision function alone
\* run_negotiation_logic applied to inputs of a wider range than the loads
\* table above offers: a call that has passed the limit check and the lookup
\* and found a load with the given rate, on a state with the given attempts
\* and last offer.
EnginePrices == {0, 3, USD(30), USD(50), USD(100), USD(1000)}
EngineRates == {None} \cup {Some(p) : p \in EnginePrices}
EngineOffers ==
    {USD(-100), 0, 3, USD(90), USD(100), USD(800), USD(950), USD(985),
     USD(1000)}

\* The values last_agent_offer can hold after k rounds on a load with this
\* rate, each round decided on some offer and rejected.
RECURSIVE OffersAfter(_, _, _)
OffersAfter(v, rate, k) ==
    IF k = 0 THEN {None}
    ELSE {Some(n) : n \in UNION {
             {m \in AgentNewOffers(v, rate, o, k - 1, prev) : o < m} :
                 o \in EngineOffers, prev \in OffersAfter(v, rate, k - 1)}}

InitEngine ==
    /\ variant \in Variants
    /\ \E rate \in EngineRates, offer \in EngineOffers,
          k \in 0..(MAX_NEGOTIATION_EXCHANGES - 1) :
        \E last \in OffersAfter(variant, rate, k) \cup {None} :
          LET o     == <<"L1", 0>>
              store == [l \in Loads |-> IF l = "L1" THEN o ELSE NoObj]
              h     == [x \in ObjIds |->
                          IF x = o THEN [attempts |-> k,
                                         last_agent_offer |-> last]
                          ELSE NegotiationState]
          IN  /\ (k = 0 => IsNone(last))
              /\ NEGOTIATION_STATE = store
              /\ heap = h
              /\ rounds = [x \in ObjIds |-> IF x = o THEN k ELSE 0]
              /\ req = [c \in Calls |->
                          IF c = "c1" THEN [load_id |-> "L1",
                                            carrier_offer |-> offer]
                          ELSE NoReq]
              /\ local = [c \in Calls |->
                            IF c = "c1" THEN [NoLocal EXCEPT !.state = o,
                                                             !.load = Some(rate)]
                            ELSE NoLocal]
              /\ trace = [c \in Calls |->
                            IF c = "c1" THEN [NoTrace EXCEPT
                                                !.pre = View(store, h),
                                                !.fetches = 1,
                                                !.fetched = "ok",
                                                !.load = Some(rate)]
                            ELSE NoTrace]
    /\ load_booked = [l \in DOMAIN LoadTable |-> "N"]
    /\ running = "c1"
    /\ pc = [c \in Calls |-> IF c = "c1" THEN "decide" ELSE "idle"]
    /\ finished = NoFinished
    /\ after_accept = [l \in Loads |-> FALSE]

NextEngine ==
    \E c \in Calls :
        \/ Decide(c)
        \/ Record(c)
        \/ Conclude(c)
        \/ Book(c)

SpecEngine == InitEngine /\ [][NextEngine]_vars

\* ---------------------------------------------------------------- claims
HasFinished == finished.result.kind # "none"
InHandler(c) == pc[c] \notin {"idle", "pending"}

\* The call that just ended found its load's state already at the limit.
BeganExhausted ==
    /\ HasFinished
    /\ finished.pre.present
    /\ finished.pre.attempts = MAX_NEGOTIATION_EXCHANGES

\* A call for load l is in the middle of a round it has decided to accept:
\* it has counted the round and is about to remove the state.
Accepting(l) ==
    \E c \in Calls : /\ pc[c] = "conclude"
                     /\ req[c].load_id = l
                     /\ local[c].negotiation_response.load_booked = "Y"

\* Every load's state that is at the limit (other than in the middle of an
\* accepting third round) is left exactly as it is.
ExhaustedStays ==
    \A l \in Loads :
        (/\ StoreView[l].present
         /\ StoreView[l].attempts = MAX_NEGOTIATION_EXCHANGES
         /\ ~Accepting(l))
            => StoreView'[l] = StoreView[l]

\* C1: once a load's state has attempts = MAX_NEGOTIATION_EXCHANGES, every
\* further negotiate call for it, whatever the carrier's offer and however
\* often repeated, returns limit_reached, leaves the whole store (keys,
\* attempts, last_agent_offer) as it was, and calls neither fetch_load nor
\* update_load_booked nor run_negotiation_logic; the state stays at the limit.
C1_IdempotentExhaustion ==
    /\ [](BeganExhausted =>
            /\ Outcome(finished.result) = "limit_reached"
            /\ finished.store_unchanged
            /\ finished.fetches = 0
            /\ finished.updates = 0
            /\ finished.decides = 0)
    /\ [][ExhaustedStays]_vars

\* A call offering the full list price on an exhausted load has just ended.
C1_Witness ==
    /\ BeganExhausted
    /\ finished.carrier_offer = USD(100)
    /\ Outcome(finished.result) = "limit_reached"

\* C2: every result whose outcome is limit_reached reports
\* remaining_attempts = 0.
C2_LimitReportsZero ==
    (HasFinished /\ Outcome(finished.result) = "limit_reached")
        => finished.result.body.remaining_attempts = 0

\* The call whose step this is (every step moves exactly one call's pc).
Acts(c) == pc'[c] # pc[c]

\* Every object's attempts is the number of rounds decided on it.
RoundsCounted == \A o \in ObjIds : heap[o].attempts = rounds[o]

\* A call that ended accepted or countered decided one round, with the
\* attempts it found as the round's index; when countered, the stored
\* attempts is one more than it found.
DecidedAddsOne ==
    (HasFinished /\ Outcome(finished.result) \in {"accepted", "countered"})
        => /\ finished.decides = 1
           /\ finished.attempt_index = finished.pre.attempts
           /\ Outcome(finished.result) = "countered"
                => /\ finished.post.present
                   /\ finished.post.attempts = finished.pre.attempts + 1

\* attempts of an object never goes down, nor does the attempts stored for a
\* load across a step that keeps its key.
NeverDecreases ==
    /\ \A o \in ObjIds :
          (\E l \in Loads : NEGOTIATION_STATE[l] = o /\ NEGOTIATION_STATE'[l] = o)
              => heap'[o].attempts >= heap[o].attempts
    /\ \A l \in Loads :
          (StoreView[l].present /\ StoreView'[l].present)
              => StoreView'[l].attempts >= StoreView[l].attempts

\* Only a step of a negotiate call for load l changes what is stored for l.
OnlyOwnCalls ==
    \A l \in Loads :
        StoreView'[l] # StoreView[l]
            => \E c \in Calls : /\ Acts(c)
                                /\ pc[c] # "idle"
                                /\ req[c].load_id = l

FreshDecision(t) ==
    (t.after_accept /\ t.decides > 0)
        => t.attempt_index = 0 /\ IsNone(t.agent_last_offer)

\* C4: after a call for a load returned accepted no NegotiationState exists
\* for the load, and the next call for it decides with attempt_index = 0 and no
\* last_agent_offer, as a first-ever call does.
C4_AcceptanceClearsState ==
    /\ \A l \in Loads : after_accept[l] => ~StoreView[l].present
    /\ (HasFinished /\ Outcome(finished.result) = "accepted")
          => ~finished.post.present
    /\ \A c \in Calls : FreshDecision(trace[c])
    /\ HasFinished => FreshDecision(finished)

\* A call that followed an accepted one on its load has decided and ended.
C4_Witness ==
    /\ HasFinished
    /\ finished.after_accept
    /\ finished.decides = 1
    /\ finished.load_id = "L1"

\* C5: update_load_booked is invoked exactly once in every call whose decision
\* is accepted and never in any other call.
C5_BookedOncePerAcceptance ==
    HasFinished => /\ finished.accepted => finished.updates = 1
                   /\ ~finished.accepted => finished.updates = 0

\* C6: in an accepted call the state is removed before the booking update is
\* attempted; when the update fails the call ends with 502 and the load has no
\* NegotiationState afterwards.
C6_ClearedBeforeBooking ==
    /\ \A c \in Calls : pc[c] = "book" => ~StoreView[req[c].load_id].present
    /\ (HasFinished /\ finished.update_failed)
          => /\ finished.result = HTTPException(502)
             /\ ~finished.post.present

\* C8: while a call for one load waits on a repository operation, a call
\* waiting to start for another load can start.
C8_OtherLoadsNotBlocked ==
    \A a, b \in Calls :
        (/\ pc[a] \in {"fetch", "book"}
         /\ pc[b] = "pending"
         /\ req[a].load_id # req[b].load_id)
            => ENABLED Lookup(b)

\* C10: a call that ends in 404 (no row for the load) leaves the store,
\* its set of keys included, as it was before the call.
C10_NotFoundLeavesStore ==
    (HasFinished /\ finished.result = HTTPException(404))
        => finished.store_unchanged

\* negotiate run alone, as a function: the (result, stored state afterwards)
\* pairs one call for load l with the given offer can end with when it finds
\* `pre` stored for l and nothing else runs.
SeqOutcomes(v, l, offer, pre) ==
    LET st0   == [attempts |-> pre.attempts,
                  last_agent_offer |-> pre.last_agent_offer]
        keep  == [present |-> TRUE, attempts |-> st0.attempts,
                  last_agent_offer |-> st0.last_agent_offer]
        fails == {[result |-> FetchFailure(v, f), post |-> keep] :
                    f \in FetchOutcomes(l) \ {"ok"}}
        outs  == IF l \in DOMAIN LoadTable
                 THEN run_negotiation_logic(v, LoadTable[l], offer,
                          st0.attempts, st0.last_agent_offer)
                 ELSE {}
        Round1(out) ==
            LET st1  == RecordRound(st0, out.agent_offer)
                rem  == Remaining(st1.attempts)
                resp == [out.response EXCEPT
                            !.remaining_attempts = Max(rem, 0)]
            IN  IF resp.load_booked = "Y" THEN
                    {[result |-> r, post |-> Absent] :
                       r \in IF v = "main" THEN {Ok(resp)}
                             ELSE {Ok(resp), HTTPException(502), Unhandled}}
                ELSE IF rem <= 0 THEN
                    {[result |-> Ok([resp EXCEPT !.no_further = TRUE]),
                      post |-> [present |-> TRUE,
                                attempts |-> MAX_NEGOTIATION_EXCHANGES,
                                last_agent_offer |-> st1.last_agent_offer]]}
                ELSE {[result |-> Ok(resp),
                       post |-> [present |-> TRUE, attempts |-> st1.attempts,
                                 last_agent_offer |-> st1.last_agent_offer]]}
    IN  IF LimitReached(st0.attempts)
        THEN {[result |-> Ok(LimitResponse(v, offer)), post |-> keep]}
        ELSE fails
             \cup (IF l \in DOMAIN LoadTable /\ outs = {}
                   THEN {[result |-> Unhandled, post |-> keep]} ELSE {})
             \cup UNION {Round1(out) : out \in outs}

\* The call that ended last ended as a call running alone would have, given
\* what it found stored for its own load.
EndsAsAlone ==
    HasFinished =>
        [result |-> finished.result, post |-> finished.post]
            \in SeqOutcomes(variant, finished.load_id, finished.carrier_offer,
                            finished.pre)

\* What call c, running alone since it started, has made of its load's entry.
OwnProgress(c) ==
    LET p == trace[c].pre[req[c].load_id]
    IN  IF pc[c] = "book" THEN Absent
        ELSE IF pc[c] = "conclude"
        THEN [present |-> TRUE, attempts |-> p.attempts + 1,
              last_agent_offer |-> local[c].agent_offer]
        ELSE [present |-> TRUE, attempts |-> p.attempts,
              last_agent_offer |-> p.last_agent_offer]

\* While a call is inside negotiate no other call is, the store is what the
\* call found except for what it did itself, and until it pops the state
\* the object it works on is the one the dict holds for its load.
RunsAlone ==
    \A c \in Calls :
        InHandler(c) =>
            /\ \A d \in Calls \ {c} : ~InHandler(d)
            /\ \A l \in Loads \ {req[c].load_id} :
                  StoreView[l] = trace[c].pre[l]
            /\ StoreView[req[c].load_id] = OwnProgress(c)
            /\ pc[c] # "book"
                  => NEGOTIATION_STATE[req[c].load_id] = local[c].state

\* C7: concurrent negotiate calls for one load are serialized end to end:
\* under every interleaving what the calls return and leave stored is what
\* they return and leave when run one after the other in the order they
\* started; no increment of attempts is lost or applied twice, and no call
\* changes a NegotiationState that has been removed from the store.
C7_SameLoadSerialized ==
    /\ RunsAlone
    /\ EndsAsAlone
    /\ \A o \in ObjIds : heap[o].attempts = rounds[o]

\* A call waits to start while another call for the same load, having
\* removed the state, is in the booking update.
C7_Witness ==
    \E a, b \in Calls :
        /\ pc[a] = "book"
        /\ pc[b] = "pending"
        /\ req[a].load_id = req[b].load_id

\* A step of a call for one load leaves every other load's stored state as
\* it is.
OtherLoadsUntouched ==
    \A c \in Calls :
        (Acts(c) /\ pc[c] # "idle")
            => \A l \in Loads \ {req[c].load_id} : StoreView'[l] = StoreView[l]

\* C9: with negotiations on two loads interleaved, a call for one load
\* leaves the other's attempts and last_agent_offer unchanged, and what a
\* call returns and stores follows from its own load's state, its own load's
\* record and its own offer alone.
C9_NonInterference ==
    /\ [][OtherLoadsUntouched]_vars
    /\ []EndsAsAlone

\* A call for L2 has ended accepted while L1 is in the middle of its
\* negotiation, with one round counted.
C9_Witness ==
    /\ HasFinished
    /\ finished.load_id = "L2"
    /\ Outcome(finished.result) = "accepted"
    /\ StoreView["L1"].present
    /\ StoreView["L1"].attempts = 1

\* The call that just ended had its lookup of the load fail: the repository
\* answered with an error, or the request itself raised.
FetchFailed ==
    /\ HasFinished
    /\ finished.fetched \in {"error", "raise"}

\* C11: a call whose fetch_load fails ends with the dependency error (502)
\* without having decided a round, and its load's attempts and
\* last_agent_offer are what they were before the call, so that the retry is
\* decided with the same attempt_index.
C11_FetchFailureAllOrNothing ==
    FetchFailed =>
        /\ finished.result = HTTPException(502)
        /\ finished.decides = 0
        /\ finished.post.attempts = finished.pre.attempts
        /\ finished.post.last_agent_offer = finished.pre.last_agent_offer

\* The call that just ended had a repository operation fail: the lookup gave
\* an error, raised, gave no row or gave a row that is not a Load, or the
\* booking update failed.
RepositoryFailed ==
    /\ HasFinished
    /\ \/ finished.fetched \in {"error", "raise", "none", "invalid"}
       \/ finished.update_failed

\* C12: a negotiate call in which a repository operation fails ends with one
\* of the three classified errors, 404, 502 or 500 raised as HTTPException;
\* it never ends with an exception that negotiate did not catch.
C12_FailuresClassified ==
    RepositoryFailed =>
        finished.result \in
            {HTTPException(404), HTTPException(502), HTTPException(500)}

\* Call c has just come back from run_negotiation_logic: its response and
\* agent offer are in its locals, the round is not yet recorded.
Decided(c) == pc[c] = "record"

\* C13: a round is accepted exactly when the carrier's offer is at least the
\* agent offer computed for the round; in an accepted round the price the
\* result gives as agreed (the agreed_price field where the response has one,
\* and the price the message says was accepted) is the carrier's offer.
C13_AcceptanceRule ==
    /\ \A c \in Calls :
          Decided(c) =>
              LET resp  == local[c].negotiation_response
                  n     == Val(local[c].agent_offer)
                  offer == req[c].carrier_offer
              IN  /\ (resp.load_booked = "Y") <=> (offer >= n)
                  /\ (resp.message = "accepted") <=> (offer >= n)
                  /\ resp.load_booked = "Y" =>
                        /\ resp.message_amount = Some(offer)
                        /\ variant = "works2" => resp.agreed_price = Some(offer)
    /\ (HasFinished /\ Outcome(finished.result) = "accepted")
          => /\ finished.result.body.message_amount
                    = Some(finished.carrier_offer)
             /\ finished.result.body.agreed_price
                    \in {None, Some(finished.carrier_offer)}

\* A round on a load listed at 100 has been decided on an offer of 1000 and
\* accepted: the price agreed is 1000, the agent's own figure was 97.
C13_Witness ==
    \E c \in Calls :
        /\ Decided(c)
        /\ variant = "works2"
        /\ Val(local[c].load) = Some(USD(100))
        /\ req[c].carrier_offer = USD(1000)
        /\ local[c].agent_offer = Some(USD(97))
        /\ local[c].negotiation_response.agreed_price = Some(USD(1000))

\* The response's agreed price says "no agreement": -1, or no such field.
NoAgreement(body) == body.agreed_price \in {None, Some(USD(-1))}

\* The response's agent offer says "no counter offer": agent_new_offer = -1
\* in mainnegote_works2.py, counter_offer = None in main.py.
NoCounter(body) ==
    IF variant = "main" THEN IsNone(body.counter_offer)
    ELSE body.agent_new_offer = Some(USD(-1))

\* C14: in every response negotiate returns the agreed price is a price only
\* when the outcome is accepted (countered and limit_reached carry the
\* no-agreement value), and the agent offer is the no-counter value exactly
\* when the outcome is accepted or limit_reached.
C14_SentinelDiscipline ==
    (HasFinished /\ finished.result.kind = "response") =>
        LET body == finished.result.body
            out  == Outcome(finished.result)
        IN  /\ ~NoAgreement(body) => out = "accepted"
            /\ NoCounter(body) <=> out \in {"accepted", "limit_reached"}

\* Call c has just decided a round that is not the first of its negotiation,
\* on a load that has a list price: the state held the previous round's offer.
LaterRound(c) ==
    /\ Decided(c)
    /\ trace[c].attempt_index > 0
    /\ ~IsNone(trace[c].agent_last_offer)
    /\ ~IsNone(Val(local[c].load))

\* C15 (as stated): within one negotiation on a load with a fixed original
\* price, each round's agent offer is at most the previous round's.
C15_OffersNonIncreasing ==
    \A c \in Calls :
        LaterRound(c) =>
            Val(local[c].agent_offer) <= Val(trace[c].agent_last_offer)

\* C15 (amended): within one negotiation on a load with a fixed original
\* price that is not negative, each round's agent offer is at least the
\* previous round's: the offers move up toward the original price.
C15_OffersNonDecreasing ==
    \A c \in Calls :
        (LaterRound(c) /\ Val(Val(local[c].load)) >= 0) =>
            Val(local[c].agent_offer) >= Val(trace[c].agent_last_offer)

\* The third round on a load listed at 1000, after offers of 970 and 985,
\* has been decided with an agent offer of 992.
C15_Witness ==
    \E c \in Calls :
        /\ LaterRound(c)
        /\ variant = "main"
        /\ Val(local[c].load) = Some(USD(1000))
        /\ trace[c].attempt_index = 2
        /\ trace[c].agent_last_offer = Some(USD(985))
        /\ local[c].agent_offer = Some(USD(992))

\* agent_original_offer of the round call c is in: the load's list price, or
\* the carrier's offer when the load has none.
OriginalPrice(c) ==
    LET rate == Val(local[c].load)
    IN  IF IsNone(rate) THEN req[c].carrier_offer ELSE Val(rate)

Abs(x) == IF x >= 0 THEN x ELSE -x

\* n is the price num / den rounded to whole dollars: no whole number of
\* dollars is nearer to num / den.
IsRounded(n, num, den) ==
    /\ n % Dollar = 0
    /\ 2 * Abs(den * n - num) <= den * Dollar

\* C16: in a round with attempt_index = 0 the agent offer is 0.97 times the
\* original price, rounded to an integer, whatever the original price; a
\* list price of 1000 gives 970, and a carrier offer of 800 on it is
\* countered with remaining_attempts = 2.
C16_FirstRoundFormula ==
    /\ \A c \in Calls :
          (Decided(c) /\ trace[c].attempt_index = 0) =>
              /\ IsRounded(Val(local[c].agent_offer), 97 * OriginalPrice(c), 100)
              /\ OriginalPrice(c) = USD(1000) => local[c].agent_offer = Some(USD(970))
    /\ \A c \in Calls :
          (/\ pc[c] = "conclude"
           /\ trace[c].attempt_index = 0
           /\ OriginalPrice(c) = USD(1000)
           /\ req[c].carrier_offer = USD(800))
              => /\ local[c].negotiation_response.message = "counters"
                 /\ local[c].negotiation_response.message_amount = Some(USD(970))
                 /\ local[c].negotiation_response.remaining_attempts = 2
    /\ (/\ HasFinished
        /\ finished.decides = 1
        /\ finished.attempt_index = 0
        /\ Outcome(finished.result) = "countered")
          => finished.result.body.remaining_attempts = 2

\* The first round on a load listed at 1000 has countered an offer of 800
\* at 970, and the round is recorded.
C16_Witness ==
    \E c \in Calls :
        /\ pc[c] = "conclude"
        /\ trace[c].attempt_index = 0
        /\ Val(local[c].load) = Some(USD(1000))
        /\ req[c].carrier_offer = USD(800)
        /\ local[c].agent_offer = Some(USD(970))
        /\ local[c].negotiation_response.remaining_attempts = 2

\* The baseline of the round call c is in: the offer the state held when the
\* round was decided, or the original price when it held none.
Baseline(c) ==
    IF IsNone(trace[c].agent_last_offer) THEN OriginalPrice(c)
    ELSE Val(trace[c].agent_last_offer)

\* C17: in main.py (the deterministic version) a round with attempt_index > 0
\* gives as agent offer the mean of the original price and the baseline,
\* rounded to an integer; with 1000 and a last offer of 970 that is 985, and
\* a carrier offer of 950 is then countered with remaining_attempts = 1.
C17_LaterRoundFormula ==
    /\ \A c \in Calls :
          (Decided(c) /\ variant = "main" /\ trace[c].attempt_index > 0) =>
              /\ IsRounded(Val(local[c].agent_offer),
                           OriginalPrice(c) + Baseline(c), 2)
              /\ (OriginalPrice(c) = USD(1000) /\ Baseline(c) = USD(970))
                    => local[c].agent_offer = Some(USD(985))
    /\ \A c \in Calls :
          (/\ pc[c] = "conclude"
           /\ variant = "main"
           /\ trace[c].attempt_index = 1
           /\ OriginalPrice(c) = USD(1000)
           /\ trace[c].agent_last_offer = Some(USD(970))
           /\ req[c].carrier_offer = USD(950))
              => /\ local[c].negotiation_response.message = "counters"
                 /\ local[c].negotiation_response.counter_offer = Some(USD(985))
                 /\ local[c].negotiation_response.remaining_attempts = 1

\* The second round on a load listed at 1000, the first having offered 970,
\* has countered an offer of 950 at 985, and the round is recorded.
C17_Witness ==
    \E c \in Calls :
        /\ pc[c] = "conclude"
        /\ variant = "main"
        /\ trace[c].attempt_index = 1
        /\ Val(local[c].load) = Some(USD(1000))
        /\ trace[c].agent_last_offer = Some(USD(970))
        /\ req[c].carrier_offer = USD(950)
        /\ local[c].agent_offer = Some(USD(985))
        /\ local[c].negotiation_response.remaining_attempts = 1

\* Everything run_negotiation_logic can return on the inputs call c gave it.
PossibleDecisions(c) ==
    run_negotiation_logic(variant, Val(local[c].load), req[c].carrier_offer,
                          trace[c].attempt_index, trace[c].agent_last_offer)

\* What run_negotiation_logic did return to call c.
Decision(c) ==
    [response |-> local[c].negotiation_response,
     agent_offer |-> Val(local[c].agent_offer)]

\* C18 (as stated): what the decision function returned (agent offer and
\* response, the accepted flag in it) is the only thing it can return on
\* these inputs: a second run with the same original price, carrier offer,
\* attempt_index and last_agent_offer returns the same.
C18_DecisionDeterministic ==
    \A c \in Calls : Decided(c) => PossibleDecisions(c) = {Decision(c)}

\* C18 (amended): the same, for the deterministic version (main.py) in every
\* round, and for mainnegote_works2.py in the first round only.
C18_BaselineDeterministic ==
    \A c \in Calls :
        (Decided(c) /\ (variant = "main" \/ trace[c].attempt_index = 0))
            => PossibleDecisions(c) = {Decision(c)}

\* main.py has decided the second round on a load listed at 1000, the first
\* having offered 970, and accepted an offer of 985.
C18_Witness ==
    \E c \in Calls :
        /\ Decided(c)
        /\ variant = "main"
        /\ trace[c].attempt_index = 1
        /\ Val(local[c].load) = Some(USD(1000))
        /\ trace[c].agent_last_offer = Some(USD(970))
        /\ req[c].carrier_offer = USD(985)
        /\ local[c].negotiation_response.load_booked = "Y"

\* Load l's negotiation is exhausted: its state is stored with attempts at
\* the maximum after a round that was rejected.
Exhausted(l) ==
    /\ StoreView[l].present
    /\ StoreView[l].attempts = MAX_NEGOTIATION_EXCHANGES
    /\ ~Accepting(l)

\* No step takes a load out of exhaustion or books it.
ExhaustedAbsorbs ==
    \A l \in Loads :
        Exhausted(l) =>
            /\ Exhausted(l)'
            /\ l \in DOMAIN load_booked => load_booked'[l] = load_booked[l]

\* C19: exhaustion is absorbing. Once three rounds on a load have been
\* rejected, the load stays exhausted through every later step, and no later
\* call for it, whatever it offers, is accepted, decides a round, books the
\* load or leaves the state with fewer than the maximum attempts.
C19_ExhaustedAbsorbing ==
    /\ [][ExhaustedAbsorbs]_vars
    /\ [](BeganExhausted =>
            /\ Outcome(finished.result) # "accepted"
            /\ ~finished.accepted
            /\ finished.updates = 0
            /\ finished.post.present
            /\ finished.post.attempts = MAX_NEGOTIATION_EXCHANGES
            /\ finished.post.last_agent_offer = finished.pre.last_agent_offer)

\* A call offering 100 on the exhausted load L1, whose list price is 100,
\* has ended; L1 is still exhausted and not booked.
C19_Witness ==
    /\ BeganExhausted
    /\ finished.load_id = "L1"
    /\ finished.carrier_offer = USD(100)
    /\ Exhausted("L1")
    /\ load_booked["L1"] = "N"

\* C20: in every reachable state, every NegotiationState object, in the
\* store or still held by a call, has 0 <= attempts <= 3.
C20_AttemptsBounded ==
    /\ \A o \in ObjIds :
          heap[o].attempts >= 0 /\ heap[o].attempts <= MAX_NEGOTIATION_EXCHANGES
    /\ \A l \in Loads :
          StoreView[l].attempts >= 0
              /\ StoreView[l].attempts <= MAX_NEGOTIATION_EXCHANGES

\* A call has just recorded the third round on its load (attempts = 3) while
\* another call is waiting to start.
C20_Witness ==
    \E c, d \in Calls :
        /\ pc[c] = "conclude"
        /\ heap[local[c].state].attempts = MAX_NEGOTIATION_EXCHANGES
        /\ pc[d] = "pending"
        /\ req[d].load_id = req[c].load_id

\* The load the call that just ended had fetched carries no loadboard_rate.
EndedWithoutRate ==
    /\ HasFinished
    /\ finished.load = Some(None)

\* C21: when the fetched load has no loadboard_rate, the round's decision is
\* made in every round on the carrier's current offer as the original price
\* (97% of it in the first round), and the call does not fail for the missing
\* rate: unless the booking update fails, it ends with an accepted or
\* countered response.
C21_AbsentRateNeverFails ==
    /\ \A c \in Calls :
          (Decided(c) /\ IsNone(Val(local[c].load))) =>
              /\ OriginalPrice(c) = req[c].carrier_offer
              /\ trace[c].attempt_index = 0 =>
                    IsRounded(Val(local[c].agent_offer),
                              97 * req[c].carrier_offer, 100)
    /\ (EndedWithoutRate /\ ~finished.update_failed)
          => /\ finished.decides = 1
             /\ Outcome(finished.result) \in {"accepted", "countered"}

\* Call c is about to run run_negotiation_logic of mainnegote_works2.py for
\* a round after the first, on a load that has a list price.
RandomisedRound(c) ==
    /\ pc[c] = "decide"
    /\ variant = "works2"
    /\ heap[local[c].state].attempts > 0
    /\ ~IsNone(Val(local[c].load))

\* C22: in the randomized version, in every round after the first and for
\* every list price, whatever the random draw added to original price plus
\* last offer gives, it is at most 2% of the list price (2 * rate hundredths
\* of a unit).
C22_PerturbationWithinTwoPercent ==
    \A c \in Calls :
        RandomisedRound(c) =>
            \A t \in RandomNumbers(Val(Val(local[c].load))) :
                t <= 2 * Val(Val(local[c].load))

\* C23: a countered response reports remaining_attempts = 3 - attempts, with
\* attempts the count stored when the call has ended; no response of any
\* outcome reports a negative remaining_attempts; and the response of the
\* third rejected round reports 0 and says that no further counter offers
\* are available.
C23_RemainingAttempts ==
    (HasFinished /\ finished.result.kind = "response") =>
        LET body == finished.result.body
        IN  /\ body.remaining_attempts >= 0
            /\ Outcome(finished.result) = "countered" =>
                  /\ finished.post.present
                  /\ body.remaining_attempts =
                        MAX_NEGOTIATION_EXCHANGES - finished.post.attempts
                  /\ finished.attempt_index = MAX_NEGOTIATION_EXCHANGES - 1
                        => body.remaining_attempts = 0 /\ body.no_further

\* The third round on a load has just been rejected: the response reports no
\* attempts left and says no further counter offers are available.
C23_Witness ==
    /\ HasFinished
    /\ Outcome(finished.result) = "countered"
    /\ finished.attempt_index = 2
    /\ finished.result.body.remaining_attempts = 0
    /\ finished.result.body.no_further
    /\ finished.post.attempts = 3

\* A state for load l comes into the store only in the lookup step of a call
\* for l, as a new NegotiationState(); it leaves the store only in the
\* concluding step of a call for l whose round was accepted; and the lookup
\* of any call leaves its load with a state.
Lifecycle ==
    /\ \A l \in Loads :
          /\ (~StoreView[l].present /\ StoreView'[l].present) =>
                /\ \E c \in Calls : /\ pc[c] = "pending"
                                    /\ pc'[c] = "check"
                                    /\ req[c].load_id = l
                /\ StoreView'[l].attempts = 0
                /\ IsNone(StoreView'[l].last_agent_offer)
          /\ (StoreView[l].present /\ ~StoreView'[l].present) =>
                \E c \in Calls :
                    /\ pc[c] = "conclude"
                    /\ pc'[c] # "conclude"
                    /\ req[c].load_id = l
                    /\ local[c].negotiation_response.load_booked = "Y"
    /\ \A c \in Calls :
          (pc[c] = "pending" /\ pc'[c] = "check")
              => StoreView'[req[c].load_id].present

\* Each stored object is stored for one load only, the one it was created
\* for.
OnePerLoad ==
    \A l \in Loads :
        NEGOTIATION_STATE[l] # NoObj =>
            /\ NEGOTIATION_STATE[l][1] = l
            /\ \A k \in Loads \ {l} : NEGOTIATION_STATE[k] # NEGOTIATION_STATE[l]

\* C24: a load's NegotiationState is created by the first negotiate call for
\* the load, is removed only by a call for that load whose round is accepted,
\* and is kept through every other step; the store never holds more than one
\* NegotiationState for a load.
C24_StateLifecycle ==
    /\ [][Lifecycle]_vars
    /\ []OnePerLoad

\* An accepted call for L1 has removed a state that two rejected rounds had
\* built up, while L2's state is still stored.
C24_Witness ==
    /\ HasFinished
    /\ finished.load_id = "L1"
    /\ Outcome(finished.result) = "accepted"
    /\ finished.pre.present
    /\ finished.pre.attempts = 2
    /\ ~StoreView["L1"].present
    /\ StoreView["L2"].present

\* What a call that ended with a response made of its load's negotiation:
\* accepted and the state removed, or one more round counted and at most the
\* maximum, or (at the limit already) nothing.
RoundOutcome ==
    (HasFinished /\ finished.result.kind = "response") =>
        \/ /\ Outcome(finished.result) = "accepted"
           /\ ~finished.post.present
        \/ /\ Outcome(finished.result) = "countered"
           /\ finished.post.present
           /\ finished.post.attempts = finished.pre.attempts + 1
           /\ finished.post.attempts <= MAX_NEGOTIATION_EXCHANGES
        \/ /\ Outcome(finished.result) = "limit_reached"
           /\ finished.pre.attempts = MAX_NEGOTIATION_EXCHANGES
           /\ finished.post = finished.pre

\* C25: a negotiation is bounded. Every call that ends with a response either
\* is accepted, removing the state, or adds one to the state's count of
\* rounds, so that the third such call on a load, if not an earlier one, ends
\* with the state removed or with attempts = 3; and no NegotiationState gets
\* more than 3 decided rounds, the round a call decides always having an
\* index below 3.
C25_BoundedNegotiation ==
    /\ RoundOutcome
    /\ (HasFinished /\ finished.result.kind = "response"
          /\ finished.pre.attempts >= MAX_NEGOTIATION_EXCHANGES - 1)
          => \/ ~finished.post.present
             \/ finished.post.attempts = MAX_NEGOTIATION_EXCHANGES
    /\ \A o \in ObjIds : rounds[o] <= MAX_NEGOTIATION_EXCHANGES
    /\ \A c \in Calls :
          trace[c].decides > 0
              => trace[c].attempt_index < MAX_NEGOTIATION_EXCHANGES

\* The third call of a negotiation on L1 has ended countered in main.py:
\* three rounds are counted on the stored state and it is exhausted.
C25_Witness ==
    /\ HasFinished
    /\ variant = "main"
    /\ finished.load_id = "L1"
    /\ Outcome(finished.result) = "countered"
    /\ finished.pre.attempts = 2
    /\ Exhausted("L1")
    /\ rounds[NEGOTIATION_STATE["L1"]] = 3

\* The last_agent_offer stored for a load changes only in the step in which
\* a call for the load records its round, and then to that round's agent
\* offer.
LastOfferFromRound ==
    \A l \in Loads :
        (/\ StoreView[l].present
         /\ StoreView'[l].present
         /\ StoreView'[l].last_agent_offer # StoreView[l].last_agent_offer)
            => \E c \in Calls :
                  /\ pc[c] = "record"
                  /\ pc'[c] = "conclude"
                  /\ req[c].load_id = l
                  /\ StoreView'[l].last_agent_offer = local[c].agent_offer

\* C26: every NegotiationState has last_agent_offer absent exactly when its
\* attempts is 0, and a state with attempts >= 1 holds as last_agent_offer
\* the agent offer computed in the latest round decided on it: the offer of
\* the round just recorded, the counter offer of the response just returned.
C26_LastOfferTracksRounds ==
    /\ [](\A o \in ObjIds :
            IsNone(heap[o].last_agent_offer) <=> heap[o].attempts = 0)
    /\ [](\A l \in Loads :
            IsNone(StoreView[l].last_agent_offer) <=> StoreView[l].attempts = 0)
    /\ [](\A c \in Calls :
            pc[c] = "conclude"
                => heap[local[c].state].last_agent_offer = local[c].agent_offer)
    /\ []((HasFinished /\ Outcome(finished.result) = "countered")
            => finished.post.last_agent_offer
                  = finished.result.body.message_amount)
    /\ [][LastOfferFromRound]_vars

\* The second round on L1 has just been countered by main.py at 98, and 98 is
\* what the state now holds.
C26_Witness ==
    /\ HasFinished
    /\ variant = "main"
    /\ finished.load_id = "L1"
    /\ Outcome(finished.result) = "countered"
    /\ finished.pre.last_agent_offer = Some(USD(97))
    /\ finished.result.body.counter_offer = Some(USD(98))
    /\ StoreView["L1"].last_agent_offer = Some(USD(98))
    /\ StoreView["L1"].attempts = 2

\* A price that is a whole, non-negative number of dollars.
WholeDollars(p) == p >= 0 /\ p % Dollar = 0

\* C27: in main.py (the deterministic version), for every original price
\* that is a non-negative whole number and in every round of a negotiation on
\* it, the agent offer is at most the original price.
C27_DeterministicOfferCapped ==
    \A c \in Calls :
        (/\ Decided(c)
         /\ variant = "main"
         /\ WholeDollars(OriginalPrice(c))
         /\ (~IsNone(Val(local[c].load)) \/ trace[c].attempt_index = 0))
            => Val(local[c].agent_offer) <= OriginalPrice(c)

\* main.py has decided the third round on a load listed at 100 after offers
\* of 97 and 98: the agent offer is 99.
C27_Witness ==
    \E c \in Calls :
        /\ Decided(c)
        /\ variant = "main"
        /\ Val(local[c].load) = Some(USD(100))
        /\ trace[c].attempt_index = 2
        /\ trace[c].agent_last_offer = Some(USD(98))
        /\ local[c].agent_offer = Some(USD(99))

\* C28: in mainnegote_works2.py (the randomized version), for every positive
\* list price and in every round, with last_agent_offer the previous round's
\* offer, the agent offer is at most the list price.
C28_RandomisedOfferCapped ==
    \A c \in Calls :
        (/\ Decided(c)
         /\ variant = "works2"
         /\ ~IsNone(Val(local[c].load))
         /\ Val(Val(local[c].load)) > 0)
            => Val(local[c].agent_offer) <= Val(Val(local[c].load))

\* Call c has decided to accept its round: it is about to remove the state
\* and return accepted (main.py), or is in or before the booking update.
HasAccepted(c) ==
    \/ pc[c] = "book"
    \/ /\ pc[c] = "conclude"
       /\ local[c].negotiation_response.load_booked = "Y"

\* C29: once the loads table has a load as booked, no negotiate call for the
\* load accepts a round or invokes update_load_booked for it.
C29_NoRebooking ==
    \A c \in Calls :
        HasAccepted(c) => load_booked[req[c].load_id] = "N"

\* The call that just ended was the first round on a load without a
\* loadboard_rate, with an offer that is not negative, and no booking update
\* failed in it.
FirstRoundWithoutRate ==
    /\ EndedWithoutRate
    /\ finished.pre.attempts = 0
    /\ IsNone(finished.pre.last_agent_offer)
    /\ finished.decides = 1
    /\ finished.attempt_index = 0
    /\ finished.carrier_offer >= 0
    /\ ~finished.update_failed

\* C30: on a load with no loadboard_rate, a first-round call (no prior
\* state) with any carrier offer >= 0 is accepted at the carrier's own offer,
\* and the load is booked.
C30_NoRateFirstRoundAccepted ==
    FirstRoundWithoutRate =>
        /\ Outcome(finished.result) = "accepted"
        /\ finished.result.body.message_amount = Some(finished.carrier_offer)
        /\ finished.booked = "Y"

====
